---- MODULE Spec2Model ----
(***************************************************************************)
(* A model of the ve_data_science maintenance tool:                        *)
(*   maintenance_tool/script_directories.py  (script metadata validation)  *)
(*   maintenance_tool/data_directories.py    (data directory manifests)    *)
(*   maintenance_tool/maintenance_tool.py    (command line entry point)    *)
(*                                                                         *)
(* Python values are modelled as records tagged by their type (field t).   *)
(* The result of a call is Return(v) or Raise(exception class name).       *)
(* yaml.safe_load and the marshmallow schemas are library code: the model  *)
(* gives the documented behaviour of the calls the repository makes.       *)
(***************************************************************************)
EXTENDS Integers, Sequences, FiniteSets, TLC

VARIABLES
    cmd,            \* the function under execution (after the entry point has
                    \* returned: the function it called)
    args,           \* its arguments
    fs,             \* the file system the call reads
    pc,             \* position in the function: "start", "loop", "done" (it
                    \* returned), "raised" (an exception left it)
    todo,           \* items a loop has still to visit
    return_value,   \* local return_value, and on "done" the value returned
    exception,      \* the exception that left the function, "none" if none did
    log,            \* records emitted on LOGGER, in order
    calls,          \* calls made to the helpers, in order
    cli             \* the command line entry point that made the call, if any:
                    \* its position and, once it returned, its status

vars == <<cmd, args, fs, pc, todo, return_value, exception, log, calls, cli>>

(***************************************************************************)
(* Bounds of the model.                                                    *)
(***************************************************************************)
MaxLines == 4        \* lines of an R / markdown file
MaxDocLen == 2       \* characters of a python module docstring
MaxVariations == 1   \* keys in which a front-matter mapping differs from GoodMap
MaxEntries == 1      \* entries of an input_files / output_files list
MaxFiles == 3        \* directory entries of a script directory
MaxSubDirs == 2      \* directories below the data root
MaxManifestEntries == 2  \* entries of a manifest's files list

(***************************************************************************)
(* Results of calls.                                                       *)
(***************************************************************************)
Return(v) == [kind |-> "return", value |-> v]
Raise(e) == [kind |-> "raise", exc |-> e]
Returned(r) == r.kind = "return"
Raised(r) == r.kind = "raise"

(***************************************************************************)
(* Python values.                                                          *)
(***************************************************************************)
PyNone == [t |-> "null"]
PyInt == [t |-> "int"]
PyStr(v) == [t |-> "str", v |-> v]
PyStrList == [t |-> "strlist"]
PyList(items) == [t |-> "list", items |-> items]
PyMap(m) == [t |-> "map", m |-> m]
YamlSyntaxError == [t |-> "yamlerror"]

\* the keys of a mapping value
Keys(val) == DOMAIN val.m

(***************************************************************************)
(* The schemas of script_directories.py.                                   *)
(***************************************************************************)
EntryKeys == {"name", "path", "description"}
StrFields == {"title", "description", "status", "usage_notes"}
StrListFields == {"author", "virtual_ecosystem_module", "package_dependencies"}
FileFields == {"input_files", "output_files"}
RequiredFieldsLessOne == (StrFields \cup StrListFields) \ {"usage_notes"}
RequiredFields == StrFields \cup StrListFields
SchemaKeys == StrFields \cup StrListFields \cup FileFields

\* marshmallow's treatment of keys that are not fields of the schema
UnknownExclude == "exclude"
UnknownPolicy == "raise"

\* ScriptFileDetails.Schema: one entry of input_files / output_files
ScriptFileDetailsValid(e) ==
    /\ e.t = "map"
    /\ EntryKeys \subseteq Keys(e)
    /\ (UnknownPolicy = "raise" => Keys(e) \subseteq EntryKeys)
    /\ \A k \in EntryKeys : e.m[k].t = "str"

\* the field status: str
StatusValid(val) == val.t = "str"

\* one field of ScriptMetadata.Schema
FieldValid(k, val) ==
    CASE k = "status" -> StatusValid(val)
      [] k \in StrFields -> val.t = "str"
      [] k \in StrListFields -> val.t = "strlist"
      [] k \in FileFields ->
            /\ val.t = "list"
            /\ \A i \in 1..Len(val.items) : ScriptFileDetailsValid(val.items[i])
      [] OTHER -> TRUE

\* the ScriptFileDetails object made from a valid entry
ScriptFileDetails(e) == [k \in EntryKeys |-> e.m[k]]

\* ScriptMetadata.Schema().load(yaml_content)
ScriptMetadataLoad(yaml_content) ==
    IF yaml_content.t # "map" THEN Raise("ValidationError")
    ELSE IF UnknownPolicy = "raise" /\ ~(Keys(yaml_content) \subseteq SchemaKeys)
        THEN Raise("ValidationError")
    ELSE IF ~(RequiredFields \subseteq Keys(yaml_content))
        THEN Raise("ValidationError")
    ELSE IF \E k \in Keys(yaml_content) \cap SchemaKeys :
                ~FieldValid(k, yaml_content.m[k])
        THEN Raise("ValidationError")
    ELSE Return([k \in SchemaKeys |->
            IF k \in FileFields
            THEN IF k \in Keys(yaml_content)
                 THEN [i \in 1..Len(yaml_content.m[k].items) |->
                          ScriptFileDetails(yaml_content.m[k].items[i])]
                 ELSE <<>>
            ELSE IF k \in Keys(yaml_content) THEN yaml_content.m[k] ELSE PyNone])

(***************************************************************************)
(* Python operators on the decoded YAML value.                             *)
(***************************************************************************)
\* key in container
PyContains(container, key) ==
    CASE container.t = "map" -> Return(key \in Keys(container))
      [] container.t = "list" ->
            Return(\E i \in 1..Len(container.items) : container.items[i] = PyStr(key))
      [] container.t = "str" -> Return(container.v = key)    \* substring test
      [] OTHER -> Raise("TypeError")

\* container[key], key a string
PyGetItem(container, key) ==
    IF container.t = "map"
    THEN IF key \in Keys(container) THEN Return(container.m[key]) ELSE Raise("KeyError")
    ELSE Raise("TypeError")

(***************************************************************************)
(* File contents.  A file is a record                                      *)
(*   parses    - a .py file: ast.parse accepts it                          *)
(*   hasDoc    - a .py file: the module has a docstring                    *)
(*   docstring - a .py file: the characters of the docstring               *)
(*   lines     - an R / markdown file: its lines (each ends in a newline)  *)
(*   doc       - what yaml.safe_load gives for the YAML text of the file   *)
(***************************************************************************)
RMarker == "#| ---"               \* the line "#| ---\n"
RYamlLine == "#| key: value"      \* a line starting with "#| "
RBlankLine == "#|"                \* the line "#|\n"
RCodeLine == "x <- 1"             \* a line without the comment prefix
RLines == {RMarker, RYamlLine, RBlankLine, RCodeLine}

MdMarker == "---"                 \* a line starting with "---"
MdYamlLine == "key: value"        \* any other line
MdLines == {MdMarker, MdYamlLine}

DocYaml == "y"                    \* a character of YAML text
DocNewline == "\n"
DocDash == "-"
DocChars == {DocYaml, DocNewline, DocDash}
DocYamlDash == "y-"               \* YAML text whose last character is a dash

\* the positions from i on of the lines of content that equal marker, in order
RECURSIVE IndicesFrom(_, _, _)
IndicesFrom(content, i, marker) ==
    IF i > Len(content) THEN <<>>
    ELSE IF content[i] = marker
         THEN <<i>> \o IndicesFrom(content, i + 1, marker)
         ELSE IndicesFrom(content, i + 1, marker)

\* [idx for idx, val in enumerate(content) if val is a marker]; 1-based here
DocumentMarkers(content, marker) == IndicesFrom(content, 1, marker)

\* content[a : b] of Python for the 1-based positions a (inclusive), b (exclusive)
Slice(content, a, b) == SubSeq(content, a, b - 1)

\* yaml.safe_load of a text: texts that hold nothing but a document start
\* marker and empty lines decode to None, others to the file's document
PayloadFree == {"---", "", DocNewline, DocDash}
SafeLoad(text, doc) ==
    IF \A i \in 1..Len(text) : text[i] \in PayloadFree
    THEN Return(PyNone)
    ELSE IF doc = YamlSyntaxError THEN Raise("YAMLError") ELSE Return(doc)

\* line.startswith("#| ") or line == "#|\n"
MarkedCorrectly(line) == line \in {RMarker, RYamlLine, RBlankLine}

\* comment_re.sub("", line) with comment_re = "^#\\| ?"
KeepComment(line) == line
StripComment(line) ==
    CASE line = RMarker -> "---"
      [] line = RYamlLine -> "key: value"
      [] line = RBlankLine -> ""
      [] OTHER -> line

\* if n_doc_markers < 2: raise ValueError
NotTwoMarkers(n_doc_markers) == n_doc_markers # 2
TooFewMarkers(n_doc_markers) == n_doc_markers < 2

\* read_r_script_metadata
read_r_unanchored(file) ==
    LET content == file.lines
        document_markers == DocumentMarkers(content, RMarker)
        yaml_lines == Slice(content, document_markers[1], document_markers[2])
    IN  IF Len(document_markers) < 2 THEN Raise("ValueError")
        ELSE IF ~(\A i \in 1..Len(yaml_lines) : MarkedCorrectly(yaml_lines[i]))
        THEN Raise("ValueError")
        ELSE SafeLoad([i \in 1..Len(yaml_lines) |-> StripComment(yaml_lines[i])], file.doc)
\* yaml_document of read_r_script_metadata: the lines handed to yaml.safe_load
r_yaml_document(file) ==
    LET content == file.lines
        document_markers == DocumentMarkers(content, RMarker)
        n_doc_markers == Len(document_markers)
    IN  IF TooFewMarkers(n_doc_markers) THEN Raise("ValueError")
        ELSE IF document_markers[1] # 1 THEN Raise("ValueError")
        ELSE LET yaml_lines == Slice(content, document_markers[1], document_markers[2])
             IN  IF ~(\A i \in 1..Len(yaml_lines) : MarkedCorrectly(yaml_lines[i]))
                 THEN Raise("ValueError")
                 ELSE Return([i \in 1..Len(yaml_lines) |-> StripComment(yaml_lines[i])])
read_r_script_metadata(file) ==
    LET yaml_document == r_yaml_document(file)
    IN  IF Raised(yaml_document) THEN yaml_document
        ELSE SafeLoad(yaml_document.value, file.doc)

\* re.sub("[\n-]+$", "\n", contents)
RECURSIVE StripTrailing(_)
StripTrailing(contents) ==
    IF contents # <<>> /\ contents[Len(contents)] \in {DocNewline, DocDash}
    THEN StripTrailing(SubSeq(contents, 1, Len(contents) - 1))
    ELSE IF contents # <<>> /\ contents[Len(contents)] = DocYamlDash
    THEN SubSeq(contents, 1, Len(contents) - 1) \o <<DocYaml>>
    ELSE contents
SubTrailingDropped(contents) == StripTrailing(contents)
SubTrailing(contents) ==
    IF StripTrailing(contents) = contents THEN contents
    ELSE StripTrailing(contents) \o <<DocNewline>>

\* the document of a YAML text whose last line, the one of usage_notes in the
\* script template, ends in a dash; and the document of the same text without
\* that dash
EndsInDash(doc) ==
    /\ doc.t = "map"
    /\ "usage_notes" \in Keys(doc)
    /\ doc.m["usage_notes"] = PyStr("text-")
TrailingDashCut(doc) ==
    IF EndsInDash(doc)
    THEN PyMap([k \in Keys(doc) |-> IF k = "usage_notes" THEN PyStr("text") ELSE doc.m[k]])
    ELSE doc

\* the document yaml.safe_load gives for contents, doc being the document of
\* the docstring as it is written in the file
DocumentOf(contents, docstring, doc) ==
    IF (\E i \in 1..Len(docstring) : docstring[i] = DocYamlDash)
        /\ (\A i \in 1..Len(contents) : contents[i] # DocYamlDash)
    THEN TrailingDashCut(doc) ELSE doc

\* read_py_script_metadata
read_py_unchecked_docstring(file) ==
    LET contents == SubTrailing(file.docstring)
    IN  IF ~file.parses THEN Raise("SyntaxError")
        ELSE IF ~file.hasDoc THEN Raise("TypeError")    \* re.sub applied to None
        ELSE SafeLoad(contents, DocumentOf(contents, file.docstring, file.doc))
\* contents of read_py_script_metadata: the text handed to yaml.safe_load
py_contents(file) ==
    IF ~file.parses THEN Raise("SyntaxError")
    ELSE IF ~file.hasDoc THEN Raise("ValueError")
    ELSE Return(SubTrailing(file.docstring))
read_py_script_metadata(file) ==
    LET contents == py_contents(file)
    IN  IF Raised(contents) THEN contents
        ELSE SafeLoad(contents.value,
                      DocumentOf(contents.value, file.docstring, file.doc))

\* read_markdown_notebook_metadata
read_markdown_two_or_more(file) ==
    LET content == file.lines
        document_markers == DocumentMarkers(content, MdMarker)
        yaml_block == Slice(content, document_markers[1], document_markers[2])
        yaml_contents == SafeLoad(yaml_block, file.doc)
        found == PyContains(yaml_contents.value, "ve_data_science")
    IN  IF Len(document_markers) < 2 THEN Raise("ValueError")
        ELSE IF document_markers[1] # 1 THEN Raise("ValueError")
        ELSE IF Raised(yaml_contents) THEN yaml_contents
        ELSE IF Raised(found) THEN found
        ELSE IF ~found.value THEN Raise("ValueError")
        ELSE PyGetItem(yaml_contents.value, "ve_data_science")
\* yaml_block of read_markdown_notebook_metadata: the lines handed to
\* yaml.safe_load
md_yaml_block(file) ==
    LET content == file.lines
        document_markers == DocumentMarkers(content, MdMarker)
        n_doc_markers == Len(document_markers)
    IN  IF n_doc_markers # 2 THEN Raise("ValueError")
        ELSE IF document_markers[1] # 1 THEN Raise("ValueError")
        ELSE Return(Slice(content, document_markers[1], document_markers[2]))
read_markdown_notebook_metadata(file) ==
    LET yaml_block == md_yaml_block(file)
    IN  IF Raised(yaml_block) THEN yaml_block
        ELSE LET yaml_contents == SafeLoad(yaml_block.value, file.doc)
             IN  IF Raised(yaml_contents) THEN yaml_contents
                 ELSE LET found == PyContains(yaml_contents.value, "ve_data_science")
                      IN  IF Raised(found) THEN found
                          ELSE IF ~found.value THEN Raise("ValueError")
                          ELSE PyGetItem(yaml_contents.value, "ve_data_science")

\* file_path.suffix.lower()
SuffixLower(name) ==
    CASE name \in {"a.py", ".d.py", "__init__.py", "pkg.py", "sub/g.py"} -> ".py"
      [] name \in {"b.R"} -> ".r"
      [] name \in {"c.Rmd"} -> ".rmd"
      [] name \in {"e.md", "README.md"} -> ".md"
      [] OTHER -> ".txt"

\* the match statement of validate_script_metadata
Loader(name, file) ==
    CASE SuffixLower(name) = ".rmd" -> read_markdown_notebook_metadata(file)
      [] SuffixLower(name) = ".r" -> read_r_script_metadata(file)
      [] SuffixLower(name) = ".py" -> read_py_script_metadata(file)
      [] SuffixLower(name) = ".md" -> read_markdown_notebook_metadata(file)
      [] OTHER -> Raise("UnboundLocalError")

\* the calls of yaml.safe_load the loader of a file makes, with the text it
\* hands over
SafeLoadCalls(name, file) ==
    LET text == CASE SuffixLower(name) \in {".rmd", ".md"} -> md_yaml_block(file)
                  [] SuffixLower(name) = ".r" -> r_yaml_document(file)
                  [] SuffixLower(name) = ".py" -> py_contents(file)
                  [] OTHER -> Raise("UnboundLocalError")
    IN  IF Raised(text) THEN <<>>
        ELSE <<[fn |-> "yaml.safe_load", arg |-> name, text |-> text.value]>>

\* if allowed_empty in yaml_content and yaml_content[allowed_empty] is None:
\*     yaml_content[allowed_empty] = []
NormaliseSkip(yaml_content, allowed_empty) == Return(yaml_content)
NormaliseEmpty(yaml_content, allowed_empty) ==
    LET found == PyContains(yaml_content, allowed_empty)
    IN  IF Raised(found) THEN found
        ELSE IF ~found.value THEN Return(yaml_content)
        ELSE LET item == PyGetItem(yaml_content, allowed_empty)
             IN  IF Raised(item) THEN item
                 ELSE IF item.value # PyNone THEN Return(yaml_content)
                 ELSE Return(PyMap([k \in Keys(yaml_content) |->
                                     IF k = allowed_empty THEN PyList(<<>>)
                                     ELSE yaml_content.m[k]]))

\* validate_script_metadata(file_path); files is the directory's content
validate_script_metadata(files, name) ==
    IF name \notin DOMAIN files THEN Raise("ValueError")
    ELSE LET yaml_content == Loader(name, files[name])
         IN  IF Raised(yaml_content) THEN yaml_content
             ELSE LET first == NormaliseEmpty(yaml_content.value, "input_files")
                  IN  IF Raised(first) THEN first
                      ELSE LET second == NormaliseEmpty(first.value, "output_files")
                           IN  IF Raised(second) THEN second
                               ELSE LET metadata == ScriptMetadataLoad(second.value)
                                    IN  IF Raised(metadata) THEN Raise("ValueError")
                                        ELSE metadata

(***************************************************************************)
(* The inputs the model draws from.                                        *)
(***************************************************************************)
NoValue == [kind |-> "none"]

\* the call was not made from the command line
NoCli == [pc |-> "off"]

SeqsUpTo(S, n) == UNION {[1..k -> S] : k \in 0..n}

\* the files a descriptor of input_files / output_files can name
DataFiles == {"in.csv", "out.csv"}

\* entries of a file list: a descriptor of target, lacking at most one key,
\* or with a key that ScriptFileDetails does not have
EntryFull(target) ==
    PyMap([k \in EntryKeys |->
            IF k = "name" THEN PyStr(target)
            ELSE IF k = "path" THEN PyStr("data") ELSE PyStr("text")])
EntryValues(targets) ==
    {PyMap([k \in EntryKeys \ {lack} |-> EntryFull(target).m[k]]) :
        lack \in EntryKeys \cup {"none"}, target \in targets}
    \cup {PyMap([k \in EntryKeys \cup {"md5"} |->
                  IF k = "md5" THEN PyStr("text") ELSE EntryFull(target).m[k]]) :
            target \in targets}

\* the values a file list key can have; "absent" stands for a missing key
Absent == [t |-> "absent"]
FileListValues(targets) ==
    {Absent, PyNone, PyInt}
    \cup {PyList(items) : items \in SeqsUpTo(EntryValues(targets), MaxEntries)}

\* the state of a required key: a value of the declared type, a missing key,
\* a null value, a value of another type; for status also the value of the
\* script template, which is none of the words final, wip, draft, and for
\* usage_notes a text that ends in a dash
ReqStates == {"ok", "absent", "null", "badtype", "unlisted", "dashed"}
ScalarFields == StrFields \cup StrListFields
ReqValue(k, state) ==
    CASE state = "ok" ->
            IF k = "status" THEN PyStr("final")
            ELSE IF k \in StrFields THEN PyStr("text") ELSE PyStrList
      [] state = "unlisted" -> PyStr("final or wip")
      [] state = "dashed" -> PyStr("text-")
      [] state = "null" -> PyNone
      [] OTHER -> PyInt

\* a front-matter mapping
BuildMap(req, inputs, outputs, extra) ==
    PyMap([k \in {r \in ScalarFields : req[r] # "absent"}
                 \cup (IF inputs = Absent THEN {} ELSE {"input_files"})
                 \cup (IF outputs = Absent THEN {} ELSE {"output_files"})
                 \cup (IF extra THEN {"licence"} ELSE {}) |->
            CASE k = "input_files" -> inputs
              [] k = "output_files" -> outputs
              [] k = "licence" -> PyStr("text")
              [] OTHER -> ReqValue(k, req[k])])

\* the mappings that differ from the mapping with just the required fields in
\* at most MaxVariations keys
Variations(req, inputs, outputs, extra) ==
    Cardinality({k \in ScalarFields : req[k] # "ok"})
        + (IF inputs = Absent THEN 0 ELSE 1) + (IF outputs = Absent THEN 0 ELSE 1)
        + (IF extra THEN 1 ELSE 0)
ReqChoices ==
    {req \in [ScalarFields -> ReqStates] :
        /\ Cardinality({k \in ScalarFields : req[k] # "ok"}) <= MaxVariations
        /\ \A k \in ScalarFields : req[k] = "unlisted" => k = "status"
        /\ \A k \in ScalarFields : req[k] = "dashed" => k = "usage_notes"}
MapValues(targets) ==
    {BuildMap(p[1], p[2], p[3], p[4]) :
        p \in {q \in ReqChoices \X FileListValues(targets) \X FileListValues(targets)
                      \X BOOLEAN :
                 Variations(q[1], q[2], q[3], q[4]) <= MaxVariations}}

AllOk == [k \in ScalarFields |-> "ok"]
GoodMap == BuildMap(AllOk, Absent, Absent, FALSE)

\* decoded documents that are not a front-matter mapping
OddDocs ==
    {YamlSyntaxError, PyNone, PyInt, PyStr("text"), PyStr("input_files"),
     PyStr("ve_data_science"), PyList(<<>>), PyList(<<PyStr("input_files")>>),
     PyList(<<PyStr("ve_data_science")>>)}

\* the markdown conventions keep the metadata under the key ve_data_science
MdWrap(inner) == PyMap([ve_data_science |-> inner])

\* file contents, the decoded document being one of docs
NoText == [parses |-> TRUE, hasDoc |-> FALSE, docstring |-> <<>>, lines |-> <<>>,
           doc |-> PyNone]
PyContents(docs) ==
    {[NoText EXCEPT !.parses = FALSE], NoText}
    \cup {[NoText EXCEPT !.hasDoc = TRUE, !.docstring = s, !.doc = d] :
            s \in {x \in SeqsUpTo(DocChars, MaxDocLen) :
                     \E i \in 1..Len(x) : x[i] = DocYaml},
            d \in docs}
    \cup {[NoText EXCEPT !.hasDoc = TRUE, !.docstring = s] :
            s \in {x \in SeqsUpTo(DocChars, MaxDocLen) :
                     \A i \in 1..Len(x) : x[i] # DocYaml}}
LineContents(alphabet, docs) ==
    {[NoText EXCEPT !.lines = l, !.doc = d] :
        l \in SeqsUpTo(alphabet, MaxLines), d \in docs}

\* well-formed files of each convention holding the mapping d
GoodPy(d) == [NoText EXCEPT !.hasDoc = TRUE,
                            !.docstring = <<IF EndsInDash(d) THEN DocYamlDash ELSE DocYaml,
                                            DocNewline, DocDash, DocNewline>>,
                            !.doc = d]
GoodR(d) == [NoText EXCEPT !.lines = <<RMarker, RYamlLine, RMarker>>, !.doc = d]
GoodMd(d) == [NoText EXCEPT !.lines = <<MdMarker, MdYamlLine, MdMarker>>,
                            !.doc = MdWrap(d)]

\* the files validate_script_metadata is applied to: every shape of file with
\* a few documents, and well-formed files with every mapping
ValidateInputs ==
    LET few == OddDocs \cup {GoodMap}
    IN  ({"a.py"} \X (PyContents(few) \cup {GoodPy(d) : d \in MapValues({"in.csv"})}))
        \cup ({"b.R"} \X (LineContents(RLines, few)
                          \cup {GoodR(d) : d \in MapValues({"in.csv"})}))
        \cup ({"c.Rmd", "e.md"} \X
                (LineContents(MdLines, few \cup {MdWrap(d) : d \in few \ {YamlSyntaxError}})
                 \cup {GoodMd(d) : d \in MapValues({"in.csv"})}))
        \cup ({"f.txt"} \X {NoText})

(***************************************************************************)
(* validate_script_metadata applied to one file.                           *)
(***************************************************************************)
InitValidate ==
    /\ cmd = "validate_script_metadata"
    /\ \E input \in ValidateInputs, exists \in BOOLEAN :
        /\ exists \/ input[2] = NoText
        /\ args = [file_path |-> input[1]]
        /\ fs = [files |-> IF exists THEN [n \in {input[1]} |-> input[2]] ELSE <<>>]
    /\ pc = "start"
    /\ todo = {}
    /\ return_value = NoValue
    /\ exception = "none"
    /\ log = <<>>
    /\ calls = <<>>
    /\ cli = NoCli

Validate ==
    /\ cmd = "validate_script_metadata"
    /\ pc = "start"
    /\ LET metadata == validate_script_metadata(fs.files, args.file_path)
       IN  /\ return_value' = IF Returned(metadata) THEN metadata.value ELSE NoValue
           /\ exception' = IF Raised(metadata) THEN metadata.exc ELSE "none"
           /\ pc' = IF Returned(metadata) THEN "done" ELSE "raised"
    /\ calls' = Append(calls, [fn |-> "validate_script_metadata", arg |-> args.file_path])
                \o (IF args.file_path \in DOMAIN fs.files
                    THEN SafeLoadCalls(args.file_path, fs.files[args.file_path])
                    ELSE <<>>)
    /\ UNCHANGED <<cmd, args, fs, todo, log, cli>>

NextValidate == Validate

SpecValidate == InitValidate /\ [][NextValidate]_vars

(***************************************************************************)
(* Paths.  A path is relative, or it is a root and a path below that root. *)
(***************************************************************************)
Roots == {"cwd", "repo"}
\* Path.cwd(), the default of repository_root
DefaultRepositoryRoot == "cwd"
Relative(rel) == [root |-> "relative", rel |-> rel]
\* repository_root / path
Join(repository_root, rel) == [root |-> repository_root, rel |-> rel]

\* the directory a relative path is resolved against when a file is accessed
WorkingDirectory == "cwd"

\* path.exists(), onDisk being the absolute paths of the files that exist
Exists(path, onDisk) ==
    (IF path.root = "relative" THEN Join(WorkingDirectory, path.rel) ELSE path) \in onDisk

(***************************************************************************)
(* check_script_directory.                                                 *)
(***************************************************************************)
\* a record emitted on LOGGER: level, message, and the names the message holds
LogRecord(level, msg, names) == [level |-> level, msg |-> msg, names |-> names]

\* f.name.startswith(".")
Hidden(name) == name \in {".d.py", ".DS_Store"}

\* the default of the argument ignore_files
ignore_files == {"__init__.py", "README.md"}

\* the contents a file of a script directory is drawn from, by its name
WithFiles(inputs, outputs) ==
    BuildMap(AllOk, PyList([i \in 1..Len(inputs) |-> EntryFull(inputs[i])]),
             PyList([i \in 1..Len(outputs) |-> EntryFull(outputs[i])]), FALSE)
LacksTitle == BuildMap([AllOk EXCEPT !["title"] = "absent"], Absent, Absent, FALSE)
ScriptDirNames == {"a.py", "b.R", "c.Rmd", "e.md", "README.md", ".d.py", "f.txt"}
SamplesFor(name) ==
    CASE name = "a.py" ->
            {GoodPy(GoodMap), GoodPy(WithFiles(<<"in.csv">>, <<>>)),
             [NoText EXCEPT !.hasDoc = TRUE], [NoText EXCEPT !.parses = FALSE]}
      [] name = "b.R" ->
            {GoodR(WithFiles(<<"in.csv">>, <<"out.csv">>)), GoodR(YamlSyntaxError),
             [NoText EXCEPT !.lines = <<RMarker, RYamlLine>>, !.doc = GoodMap]}
      [] name = "c.Rmd" -> {GoodMd(GoodMap), GoodMd(LacksTitle)}
      [] name = "e.md" ->
            {GoodMd(WithFiles(<<>>, <<"out.csv">>)),
             [NoText EXCEPT !.lines = <<MdMarker, MdMarker>>]}
      [] name = ".d.py" -> {[NoText EXCEPT !.parses = FALSE]}
      [] name = "sub/g.py" -> {[NoText EXCEPT !.parses = FALSE], GoodPy(LacksTitle)}
      [] OTHER -> {NoText}

\* the subdirectories a script directory can have (one of them has the name
\* of a script), the files inside them, and the directory a file is in
SubDirNames == {"sub", "pkg.py"}
NestedNames == {"sub/g.py"}
DirName(path) == IF path \in NestedNames THEN "sub" ELSE "."

\* what lies below a script directory, at most MaxFiles entries: the regular
\* files (at any depth, by their path from the directory) and the names of
\* the subdirectories
ScriptDirListings ==
    UNION {{[files |-> files, subdirs |-> names \cap SubDirNames] :
                files \in {f \in [names \ SubDirNames ->
                                    UNION {SamplesFor(n) : n \in names \ SubDirNames}] :
                            \A n \in names \ SubDirNames : f[n] \in SamplesFor(n)}} :
            names \in {ns \in SUBSET (ScriptDirNames \cup SubDirNames \cup NestedNames) :
                        /\ Cardinality(ns) <= MaxFiles
                        /\ \A n \in ns \cap NestedNames : DirName(n) \in ns}}

\* directory.iterdir(): the immediate children of the directory
WalkDir(tree) == DOMAIN tree.files \cup tree.subdirs
IterDir(tree) == {f \in DOMAIN tree.files : DirName(f) = "."} \cup tree.subdirs

\* f.is_file()
IsFile(tree, f) == f \in DOMAIN tree.files

\* actual_files and script_files of check_script_directory
ActualFiles(tree) == {f \in IterDir(tree) : ~Hidden(f) /\ IsFile(tree, f)}
ScriptFiles(tree) ==
    {f \in ActualFiles(tree) :
        SuffixLower(f) \in {".r", ".py", ".md", ".rmd"} /\ f \notin ignore_files}

\* the data files the scripts of a listing declare
DeclaredBy(tree) ==
    UNION {LET metadata == validate_script_metadata(tree.files, n)
           IN  IF Raised(metadata) THEN {}
               ELSE {metadata.value[k][i]["name"].v :
                        k \in {"input_files"}, i \in 1..Len(metadata.value["input_files"])}
                    \cup {metadata.value[k][i]["name"].v :
                        k \in {"output_files"}, i \in 1..Len(metadata.value["output_files"])} :
           n \in DOMAIN tree.files}

\* the exceptions the loop of check_script_directory catches
Caught == {"ValueError", "YAMLError", "ValidationError"}

\* Path(file.path) / file.name for a descriptor of input_files / output_files
DescriptorPath(file) == Relative(file["path"].v \o "/" \o file["name"].v)

\* the log lines of the existence checks of the descriptors of one list
RECURSIVE LocationLog(_, _, _)
LocationLog(details, label, onDisk) ==
    IF details = <<>> THEN <<>>
    ELSE <<LogRecord("ERROR",
                     IF Exists(DescriptorPath(Head(details)), onDisk)
                     THEN label \o " file found" ELSE label \o " file not found",
                     {Head(details)["name"].v})>>
         \o LocationLog(Tail(details), label, onDisk)

\* every descriptor of the list names a file that exists
AllExist(details, onDisk) ==
    \A i \in 1..Len(details) : Exists(DescriptorPath(details[i]), onDisk)

\* return_value after the existence checks of one script: it is set to False
\* at a missing file and is never set to True
LocationResultOfLast(return_value_before, inputs, outputs, onDisk) ==
    AllExist(inputs, onDisk) /\ AllExist(outputs, onDisk)
LocationResult(return_value_before, inputs, outputs, onDisk) ==
    return_value_before /\ AllExist(inputs, onDisk) /\ AllExist(outputs, onDisk)

\* the file systems check_script_directory runs on: what is at the path
\* repository_root / directory, and which of the declared data files exist
\* below the repository root and below the working directory (no call reads
\* them when check_file_locations is off)
ScriptFileSystems(repository_root, check_file_locations) ==
    {[kind |-> kind, files |-> <<>>, subdirs |-> {}, onDisk |-> {}] :
        kind \in {"absent", "file"}}
    \cup UNION {{[kind |-> "dir", files |-> tree.files, subdirs |-> tree.subdirs,
                  onDisk |-> {Join(f[1], "data/" \o f[2]) : f \in onDisk}] :
                    onDisk \in IF check_file_locations
                               THEN SUBSET ({WorkingDirectory, repository_root}
                                            \X DeclaredBy(tree))
                               ELSE {{}}} :
                tree \in ScriptDirListings}

InitScript ==
    /\ cmd = "check_script_directory"
    /\ \E repository_root \in Roots, check_file_locations \in BOOLEAN :
        /\ args = [directory |-> Relative("scripts"),
                   check_file_locations |-> check_file_locations,
                   repository_root |-> repository_root]
        /\ fs \in ScriptFileSystems(repository_root, check_file_locations)
        /\ fs.kind # "dir" => check_file_locations
    /\ pc = "start"
    /\ todo = {}
    /\ return_value = TRUE
    /\ exception = "none"
    /\ log = <<>>
    /\ calls = <<>>
    /\ cli = NoCli

\* check_script_directory up to the loop over the script files; fs.kind and
\* fs.files describe the path repository_root / directory
StartScriptCheck ==
    /\ cmd = "check_script_directory"
    /\ pc = "start"
    /\ LET checking == LogRecord("INFO", "Script checking", {args.directory.rel})
       IN  IF fs.kind = "absent"
           THEN /\ log' = log \o <<checking, LogRecord("ERROR", "Directory not found", {})>>
                /\ return_value' = FALSE
                /\ pc' = "done"
                /\ todo' = {}
           ELSE IF fs.kind # "dir"
           THEN /\ log' = log \o <<checking,
                        LogRecord("ERROR", "Directory path is a file not a directory", {})>>
                /\ return_value' = FALSE
                /\ pc' = "done"
                /\ todo' = {}
           ELSE /\ log' = log \o <<checking,
                        LogRecord("INFO", "Found files including script files",
                                  ScriptFiles(fs))>>
                /\ return_value' = TRUE
                /\ pc' = "loop"
                /\ todo' = ScriptFiles(fs)
    /\ UNCHANGED <<cmd, args, fs, exception, calls, cli>>

\* one iteration of the loop: for file in script_files
CheckScriptFile ==
    /\ cmd = "check_script_directory"
    /\ pc = "loop"
    /\ \E file \in todo :
        LET yaml_contents == validate_script_metadata(fs.files, file)
        IN  /\ todo' = todo \ {file}
            /\ calls' = Append(calls, [fn |-> "validate_script_metadata", arg |-> file])
            /\ IF Raised(yaml_contents) /\ yaml_contents.exc \in Caught
               THEN /\ log' = Append(log,
                            LogRecord("ERROR", "did not pass metadata validation", {file}))
                    /\ return_value' = FALSE
                    /\ UNCHANGED <<pc, exception>>
               ELSE IF Raised(yaml_contents)
               THEN /\ exception' = yaml_contents.exc
                    /\ pc' = "raised"
                    /\ UNCHANGED <<log, return_value>>
               ELSE LET inputs == yaml_contents.value["input_files"]
                        outputs == yaml_contents.value["output_files"]
                        valid == LogRecord("INFO", "contains valid metadata", {file})
                    IN  IF args.check_file_locations
                        THEN /\ log' = log \o <<valid>>
                                        \o LocationLog(inputs, "Input", fs.onDisk)
                                        \o LocationLog(outputs, "Output", fs.onDisk)
                             /\ return_value' =
                                    LocationResult(return_value, inputs, outputs, fs.onDisk)
                             /\ UNCHANGED <<pc, exception>>
                        ELSE /\ log' = Append(log, valid)
                             /\ UNCHANGED <<pc, exception, return_value>>
    /\ UNCHANGED <<cmd, args, fs, cli>>

\* the loop is exhausted: return return_value
FinishScriptCheck ==
    /\ cmd = "check_script_directory"
    /\ pc = "loop"
    /\ todo = {}
    /\ pc' = "done"
    /\ UNCHANGED <<cmd, args, fs, todo, return_value, exception, log, calls, cli>>

(***************************************************************************)
(* The manifest schemas of data_directories.py.                            *)
(***************************************************************************)
ManifestFileKeys == {"name", "url", "script", "md5"}
ValidUrls == {"https://example.org/a.csv"}

\* the field validation of ManifestFile: the keys and values that make
\* marshmallow report a field error
ManifestFileFieldErrors(data) ==
    \/ ~(Keys(data) \subseteq ManifestFileKeys)
    \/ "name" \notin Keys(data)
    \/ \E k \in Keys(data) \cap ManifestFileKeys : data.m[k].t # "str"
    \/ ("url" \in Keys(data) /\ data.m["url"].t = "str" /\ data.m["url"].v \notin ValidUrls)

\* ManifestFile.validate_url_or_schema
validate_url_or_both(data) ==
    IF ~("url" \in Keys(data) /\ "script" \in Keys(data))
    THEN Return(data) ELSE Raise("ValidationError")
validate_url_or_schema(data) ==
    IF ~(("url" \in Keys(data)) # ("script" \in Keys(data)))
    THEN Raise("ValidationError") ELSE Return(data)

\* ManifestFile().load(data): the schema validator runs when no field failed
ManifestFileLoad(data) ==
    IF data.t # "map" THEN Raise("ValidationError")
    ELSE IF ManifestFileFieldErrors(data) THEN Raise("ValidationError")
    ELSE validate_url_or_schema(data)

\* ManifestSchema().load(data=manifest)
ManifestSchemaLoad(manifest) ==
    IF manifest.t # "map" THEN Raise("ValidationError")
    ELSE IF Keys(manifest) # {"directory", "files"} THEN Raise("ValidationError")
    ELSE IF manifest.m["directory"].t # "str" \/ manifest.m["files"].t # "list"
        THEN Raise("ValidationError")
    ELSE IF \E i \in 1..Len(manifest.m["files"].items) :
                Raised(ManifestFileLoad(manifest.m["files"].items[i]))
        THEN Raise("ValidationError")
    ELSE Return([directory |-> manifest.m["directory"].v,
                 files |-> manifest.m["files"].items])

(***************************************************************************)
(* Data directories.  A path is a root and a path relative to it; the file *)
(* system holds a tree of directories below one root.                      *)
(***************************************************************************)
AbsentNode == [kind |-> "absent", files |-> {}, subdirs |-> {}, manifest |-> PyNone]
FileNode == [kind |-> "file", files |-> {}, subdirs |-> {}, manifest |-> PyNone]
DirNode(files, manifest) ==
    [kind |-> "dir", files |-> files, subdirs |-> {}, manifest |-> manifest]
Lookup(directory) ==
    IF directory.root = fs.root /\ directory.rel \in DOMAIN fs.dirs
    THEN fs.dirs[directory.rel] ELSE AbsentNode

\* manifest entries of the data files of a directory
DataNames == {"a.csv", "b.csv"}
ManifestEntry(name, provenance) ==
    PyMap([k \in {"name"} \cup provenance |->
            CASE k = "name" -> PyStr(name)
              [] k = "url" -> PyStr("https://example.org/a.csv")
              [] OTHER -> PyStr("make.py")])
DirEntries ==
    {ManifestEntry(n, pr) : n \in DataNames, pr \in SUBSET {"url", "script"}}
    \cup {PyMap([url |-> PyStr("https://example.org/a.csv")])}
ManifestMap(directory, entries) ==
    PyMap([directory |-> PyStr(directory), files |-> PyList(entries)])
ManifestDocs(rel) ==
    {YamlSyntaxError, PyNone, PyMap([directory |-> PyStr(rel)])}
    \cup {ManifestMap(dir, entries) :
            dir \in {rel, "elsewhere"}, entries \in SeqsUpTo(DirEntries, MaxManifestEntries)}

\* manifest entries that name the manifest itself, a hidden file and a
\* subdirectory, and the subdirectories a data directory can have
OddEntries ==
    {ManifestEntry(n, {"url"}) : n \in {"a.csv", "MANIFEST.yaml", ".DS_Store", "raw"}}
DataSubDirs == {"raw"}

\* the nodes check_data_directory is applied to
DataNodes(rel) ==
    {AbsentNode, FileNode}
    \cup {DirNode(files, PyNone) : files \in SUBSET (DataNames \cup {".DS_Store"})}
    \cup {DirNode(files \cup {"MANIFEST.yaml"}, manifest) :
            files \in SUBSET (DataNames \cup {".DS_Store"}), manifest \in ManifestDocs(rel)}
    \cup {[DirNode(files \cup {"MANIFEST.yaml"}, ManifestMap(rel, entries))
                EXCEPT !.subdirs = subdirs] :
            files \in SUBSET (DataNames \cup {".DS_Store"}),
            entries \in SeqsUpTo(OddEntries, MaxManifestEntries),
            subdirs \in SUBSET DataSubDirs}

\* directory.iterdir() and f.is_file() of the set comprehension of actual_files
IterDataDir(node) == node.files \cup node.subdirs
IsAnyEntry(node, f) == TRUE
IsDataFile(node, f) == f \in node.files

\* "MANIFEST.yaml" in actual_files
ManifestAssumed(actual_files) == TRUE
ManifestPresent(actual_files) == "MANIFEST.yaml" \in actual_files

\* actual_files.remove("MANIFEST.yaml")
ManifestKept(actual_files) == actual_files
ManifestRemoved(actual_files) == actual_files \ {"MANIFEST.yaml"}

\* the file system after actual_files.remove("MANIFEST.yaml"): the name leaves
\* the set in memory, the file stays in the directory
ManifestUnlinked(disk, directory) ==
    IF directory.root = disk.root /\ directory.rel \in DOMAIN disk.dirs
    THEN [disk EXCEPT !.dirs[directory.rel] =
            IF "MANIFEST.yaml" \in @.files
            THEN [@ EXCEPT !.files = @ \ {"MANIFEST.yaml"}, !.manifest = PyNone] ELSE @]
    ELSE disk
ManifestOnDisk(disk, directory) == disk

\* (repository_root / manifest["directory"]) != directory
DirectoryNameIgnored(repository_root, manifest_directory, directory) == TRUE
DirectoryNameMatches(repository_root, manifest_directory, directory) ==
    Join(repository_root, manifest_directory) = directory

\* check_data_directory(directory, repository_root): the value returned, the
\* records logged and the calls made
Outcome(value, records, called) == [value |-> value, log |-> records, calls |-> called]
check_data_directory(directory_arg, repository_root) ==
    LET directory == IF directory_arg.root = "relative"
                     THEN Join(repository_root, directory_arg.rel) ELSE directory_arg
        node == Lookup(directory)
        checking == LogRecord("INFO", "Checking", {directory.rel})
        actual_files == {f \in IterDataDir(node) : ~Hidden(f) /\ IsDataFile(node, f)}
        found == LogRecord("INFO", "Found files", actual_files)
        decode == [fn |-> "yaml.safe_load", arg |-> directory.rel]
        validate == [fn |-> "ManifestSchema.load", arg |-> directory.rel]
    IN  IF node.kind = "absent"
        THEN Outcome(FALSE, <<checking, LogRecord("ERROR", "Directory not found", {})>>, <<>>)
        ELSE IF node.kind # "dir"
        THEN Outcome(FALSE, <<checking,
                LogRecord("ERROR", "Directory path is a file not a directory", {})>>, <<>>)
        ELSE IF ~ManifestPresent(actual_files)
        THEN Outcome(FALSE, <<checking, found,
                LogRecord("ERROR", "MANIFEST.yaml not found", {})>>, <<>>)
        ELSE IF node.manifest = YamlSyntaxError
        THEN Outcome(FALSE, <<checking, found,
                LogRecord("ERROR", "Cannot parse MANIFEST.yaml", {}),
                LogRecord("ERROR", "YAMLError", {})>>, <<decode>>)
        ELSE IF Raised(ManifestSchemaLoad(node.manifest))
        THEN Outcome(FALSE, <<checking, found,
                LogRecord("ERROR", "MANIFEST.yaml structure incorrect", {}),
                LogRecord("ERROR", "ValidationError messages", {})>>, <<decode, validate>>)
        ELSE
        LET manifest == ManifestSchemaLoad(node.manifest).value
            name_matches ==
                DirectoryNameMatches(repository_root, manifest.directory, directory)
            data_files == ManifestRemoved(actual_files)
            manifest_files == {manifest.files[i].m["name"].v : i \in 1..Len(manifest.files)}
            compare == [fn |-> "compare files", arg |-> directory.rel,
                        actual_files |-> data_files, manifest_files |-> manifest_files]
            only_in_manifest == manifest_files \ data_files
            only_in_directory == data_files \ manifest_files
            return_val == name_matches /\ manifest_files = data_files
        IN  Outcome(return_val,
                <<checking, found>>
                \o (IF name_matches THEN <<>>
                    ELSE <<LogRecord("ERROR", "MANIFEST.yaml directory name does not match",
                                     {manifest.directory})>>)
                \o (IF manifest_files = data_files THEN <<>>
                    ELSE <<LogRecord("ERROR",
                             "MANIFEST.yaml files do not match directory contents", {})>>
                         \o (IF only_in_manifest # {}
                             THEN <<LogRecord("ERROR", "Only in manifest", only_in_manifest)>>
                             ELSE <<>>)
                         \o (IF only_in_directory # {}
                             THEN <<LogRecord("ERROR", "Only in directory", only_in_directory)>>
                             ELSE <<>>))
                \o (IF return_val THEN <<LogRecord("INFO", "Directory validated", {})>>
                    ELSE <<LogRecord("ERROR", "Directory manifest contains errors", {})>>),
                <<decode, validate, compare>>)

\* the file systems check_data_directory runs on: one node below root
DataFileSystems(root) ==
    {[root |-> root, dirs |-> [r \in {"data"} |-> node]] : node \in DataNodes("data")}

InitData ==
    /\ cmd = "check_data_directory"
    /\ \E directory \in {Relative("data"), Join(DefaultRepositoryRoot, "data")},
          repository_root \in Roots :
        args = [directory |-> directory, repository_root |-> repository_root]
    /\ fs \in DataFileSystems(DefaultRepositoryRoot)
    /\ pc = "start"
    /\ todo = {}
    /\ return_value = TRUE
    /\ exception = "none"
    /\ log = <<>>
    /\ calls = <<>>
    /\ cli = NoCli

\* a call of check_data_directory
CheckDataDirectory ==
    /\ cmd = "check_data_directory"
    /\ pc = "start"
    /\ LET outcome == check_data_directory(args.directory, args.repository_root)
           directory == IF args.directory.root = "relative"
                        THEN Join(args.repository_root, args.directory.rel)
                        ELSE args.directory
       IN  /\ return_value' = outcome.value
           /\ log' = log \o outcome.log
           /\ calls' = calls \o outcome.calls
           /\ fs' = ManifestOnDisk(fs, directory)
    /\ pc' = "done"
    /\ UNCHANGED <<cmd, args, todo, exception, cli>>

(***************************************************************************)
(* check_all_data_directories.                                             *)
(***************************************************************************)
\* the directories that can exist below the data root, and their parents
SubDirs == {"data/d1", "data/d2", "data/d1/d3", "data/d1/d3/d4"}
Parent(rel) ==
    CASE rel = "data/d1/d3/d4" -> "data/d1/d3"
      [] rel = "data/d1/d3" -> "data/d1"
      [] OTHER -> "data"
Trees ==
    {t \in SUBSET SubDirs :
        Cardinality(t) <= MaxSubDirs /\ \A d \in t : Parent(d) \in t \cup {"data"}}

\* the directories a tree is populated with
TreeNodes(rel) ==
    {DirNode({"a.csv"}, PyNone),
     DirNode({"MANIFEST.yaml", "a.csv"},
             ManifestMap(rel, <<ManifestEntry("a.csv", {"url"})>>)),
     DirNode({"MANIFEST.yaml", "a.csv"},
             ManifestMap(rel, <<ManifestEntry("b.csv", {"script"})>>)),
     DirNode({"MANIFEST.yaml"}, YamlSyntaxError)}

\* the orders in which rglob can produce the directories of a set
Orders(S) ==
    {o \in [1..Cardinality(S) -> S] : \A i, j \in 1..Cardinality(S) : i # j => o[i] # o[j]}

\* the file systems check_all_data_directories runs on: a tree below root,
\* or no data root at all
Leaf(rel) ==
    CASE rel = "data/d1/d3/d4" -> "d4"
      [] rel = "data/d1/d3" -> "d3"
      [] rel = "data/d2" -> "d2"
      [] OTHER -> "d1"
WithChildren(dirs, tree) ==
    [r \in DOMAIN dirs |->
        IF dirs[r].kind = "dir"
        THEN [dirs[r] EXCEPT !.subdirs = {Leaf(c) : c \in {x \in tree : Parent(x) = r}}]
        ELSE dirs[r]]
TreeFileSystems(root) ==
    UNION {{[root |-> root, dirs |-> WithChildren(dirs, tree)] :
                dirs \in {d \in [tree \cup {"data"} ->
                                  {AbsentNode}
                                  \cup UNION {TreeNodes(r) : r \in tree \cup {"data"}}] :
                            /\ \A r \in tree : d[r] \in TreeNodes(r)
                            /\ d["data"] \in TreeNodes("data")
                                    \cup (IF tree = {} THEN {AbsentNode} ELSE {})}} :
            tree \in Trees}

\* directories = [path for path in data_root.rglob("*") if path.is_dir()]
\* directories.insert(0, data_root)
DirectoriesRootLast(data_root, order) ==
    [i \in 1..Len(order) |-> Join(data_root.root, order[i])] \o <<data_root>>
Directories(data_root, order) ==
    <<data_root>> \o [i \in 1..Len(order) |-> Join(data_root.root, order[i])]

InitAll ==
    /\ cmd = "check_all_data_directories"
    /\ \E repository_root \in Roots :
        /\ args = [data_root |-> Relative("data"), repository_root |-> repository_root]
        /\ fs \in TreeFileSystems(repository_root)
    /\ pc = "start"
    /\ todo = <<>>
    /\ return_value = NoValue
    /\ exception = "none"
    /\ log = <<>>
    /\ calls = <<>>
    /\ cli = NoCli

\* check_all_data_directories up to its loop: the list of directories
StartAll ==
    /\ cmd = "check_all_data_directories"
    /\ pc = "start"
    /\ LET data_root == Join(args.repository_root, args.data_root.rel)
           below == {r \in DOMAIN fs.dirs : r # data_root.rel /\ fs.dirs[r].kind = "dir"}
       IN  \E order \in Orders(below) : todo' = Directories(data_root, order)
    /\ log' = Append(log, LogRecord("INFO", "Checking all data directories within",
                                    {args.data_root.rel}))
    /\ pc' = "loop"
    /\ UNCHANGED <<cmd, args, fs, return_value, exception, calls, cli>>

\* one iteration: check_data_directory(directory=each_dir)
CheckEachDir ==
    /\ cmd = "check_all_data_directories"
    /\ pc = "loop"
    /\ todo # <<>>
    /\ LET outcome == check_data_directory(Head(todo), DefaultRepositoryRoot)
       IN  /\ log' = log \o outcome.log
           /\ calls' = calls \o <<[fn |-> "check_data_directory", arg |-> Head(todo).rel]>>
                             \o outcome.calls
           /\ fs' = ManifestOnDisk(fs, Head(todo))
    /\ todo' = Tail(todo)
    /\ UNCHANGED <<cmd, args, pc, return_value, exception, cli>>

\* the loop is exhausted: the function returns None
FinishAll ==
    /\ cmd = "check_all_data_directories"
    /\ pc = "loop"
    /\ todo = <<>>
    /\ pc' = "done"
    /\ UNCHANGED <<cmd, args, fs, todo, return_value, exception, log, calls, cli>>

(***************************************************************************)
(* The directory checks: one call of one of the three functions.           *)
(***************************************************************************)
Init == InitScript \/ InitData \/ InitAll

Next ==
    \/ StartScriptCheck
    \/ CheckScriptFile
    \/ FinishScriptCheck
    \/ CheckDataDirectory
    \/ StartAll
    \/ CheckEachDir
    \/ FinishAll

Spec == Init /\ [][Next]_vars

(***************************************************************************)
(* maintenance_tool_cli: the command line entry point.                     *)
(***************************************************************************)
Checks == {"check_script_directory", "check_data_directory", "check_all_data_directories"}

\* the argument lists the entry point is called with
CommandLines ==
    {<<>>, <<"globus_sync">>, <<"globus_sync", "globus_config.yaml">>,
     <<"check_script_directory">>, <<"check_data_directory">>,
     <<"check_all_data_directories">>}
    \cup {<<"check_script_directory", "scripts">> \o root : root \in SeqsUpTo(Roots, 1)}
    \cup {<<"check_data_directory", "data">> \o root : root \in SeqsUpTo(Roots, 1)}
    \cup {<<"check_all_data_directories", "data">> \o root : root \in SeqsUpTo(Roots, 1)}

\* parser.parse_args(args=args_list): the namespace, or SystemExit when a
\* required positional argument is missing
ParseArgs(args_list) ==
    LET repository_root == IF Len(args_list) >= 3 THEN args_list[3] ELSE "None"
    IN  IF args_list = <<>> THEN Return([subcommand |-> "None"])
        ELSE IF args_list[1] = "check_all_data_directories"
        THEN Return([subcommand |-> args_list[1],
                     data_root |-> Relative(IF Len(args_list) >= 2 THEN args_list[2]
                                            ELSE "data"),
                     repository_root |-> repository_root])
        ELSE IF Len(args_list) < 2 THEN Raise("SystemExit")
        ELSE IF args_list[1] = "globus_sync"
        THEN Return([subcommand |-> args_list[1], config_path |-> args_list[2]])
        ELSE Return([subcommand |-> args_list[1], directory |-> Relative(args_list[2]),
                     repository_root |-> repository_root])

\* root = Path.cwd() if args.repository_root is None else args.repository_root
RootOf(namespace) ==
    IF namespace.repository_root = "None" THEN WorkingDirectory
    ELSE namespace.repository_root

\* return 1
ExitStatusOfCheck(subcommand, value) ==
    IF subcommand \in {"check_script_directory", "check_data_directory"}
    THEN IF value THEN 0 ELSE 1
    ELSE 0
ExitStatus(subcommand, value) == 1

\* the file systems the entry point runs on, by its subcommand
NoFiles == [root |-> WorkingDirectory, dirs |-> <<>>]
CliFileSystems(args_list) ==
    LET parsed == ParseArgs(args_list)
    IN  IF Raised(parsed) \/ parsed.value.subcommand \notin Checks THEN {NoFiles}
        ELSE CASE parsed.value.subcommand = "check_script_directory" ->
                    ScriptFileSystems(RootOf(parsed.value), TRUE)
               [] parsed.value.subcommand = "check_data_directory" ->
                    DataFileSystems(WorkingDirectory)
               [] OTHER -> TreeFileSystems(RootOf(parsed.value))

InitCli ==
    /\ cmd = "maintenance_tool_cli"
    /\ \E args_list \in CommandLines :
        /\ args = [args_list |-> args_list]
        /\ fs \in CliFileSystems(args_list)
    /\ pc = "start"
    /\ todo = {}
    /\ return_value = NoValue
    /\ exception = "none"
    /\ log = <<>>
    /\ calls = <<>>
    /\ cli = [pc |-> "start"]

\* maintenance_tool_cli up to the call its match statement makes
CliParse ==
    /\ cmd = "maintenance_tool_cli"
    /\ cli.pc = "start"
    /\ LET parsed == ParseArgs(args.args_list)
           namespace == parsed.value
       IN  IF Raised(parsed)
           THEN /\ exception' = parsed.exc
                /\ pc' = "raised"
                /\ cli' = [pc |-> "raised"]
                /\ UNCHANGED <<cmd, args, todo, return_value>>
           ELSE /\ cli' = [pc |-> "call"]
                /\ exception' = exception
                /\ CASE namespace.subcommand = "check_script_directory" ->
                            /\ cmd' = namespace.subcommand
                            /\ args' = [directory |-> namespace.directory,
                                        check_file_locations |-> TRUE,
                                        repository_root |-> RootOf(namespace)]
                            /\ return_value' = TRUE
                            /\ UNCHANGED <<pc, todo>>
                     [] namespace.subcommand = "check_data_directory" ->
                            /\ cmd' = namespace.subcommand
                            /\ args' = [directory |-> namespace.directory,
                                        repository_root |-> RootOf(namespace)]
                            /\ return_value' = TRUE
                            /\ UNCHANGED <<pc, todo>>
                     [] namespace.subcommand = "check_all_data_directories" ->
                            /\ cmd' = namespace.subcommand
                            /\ args' = [data_root |-> namespace.data_root,
                                        repository_root |-> RootOf(namespace)]
                            /\ todo' = <<>>
                            /\ UNCHANGED <<pc, return_value>>
                     [] namespace.subcommand = "globus_sync" ->
                            /\ cmd' = namespace.subcommand
                            /\ args' = [config_file_path |-> namespace.config_path]
                            /\ UNCHANGED <<pc, todo, return_value>>
                     [] OTHER ->
                            /\ pc' = "done"
                            /\ UNCHANGED <<cmd, args, todo, return_value>>
    /\ UNCHANGED <<fs, log, calls>>

\* globus_sync(args.config_path): a call to an external service, which
\* returns None or raises
GlobusSync ==
    /\ cmd = "globus_sync"
    /\ pc = "start"
    /\ \E raised \in BOOLEAN :
        /\ pc' = IF raised THEN "raised" ELSE "done"
        /\ exception' = IF raised THEN "TransferAPIError" ELSE "none"
    /\ calls' = Append(calls, [fn |-> "globus_sync", arg |-> args.config_file_path])
    /\ UNCHANGED <<cmd, args, fs, todo, return_value, log, cli>>

\* the call of the match statement has ended: return 1, or the exception of
\* the call leaves the entry point
CliReturn ==
    /\ cli.pc = "call"
    /\ pc \in {"done", "raised"}
    /\ cli' = IF pc = "done"
              THEN [pc |-> "done", status |-> ExitStatus(cmd, return_value)]
              ELSE [pc |-> "raised"]
    /\ UNCHANGED <<cmd, args, fs, pc, todo, return_value, exception, log, calls>>

NextCli ==
    \/ CliParse
    \/ GlobusSync
    \/ CliReturn
    \/ Next

SpecCli == InitCli /\ [][NextCli]_vars

(***************************************************************************)
(* ManifestFile().load applied to one manifest entry.                      *)
(***************************************************************************)
ManifestEntryInputs ==
    {PyMap([k \in {f \in ManifestFileKeys \cup {"size"} : v[f] # Absent} |-> v[k]]) :
        v \in {w \in [ManifestFileKeys \cup {"size"} ->
                        {Absent, PyNone, PyInt, PyStr("a.csv"),
                         PyStr("https://example.org/a.csv")}] :
                 /\ w["name"] \in {Absent, PyInt, PyStr("a.csv")}
                 /\ w["script"] \in {Absent, PyInt, PyStr("a.csv")}
                 /\ w["md5"] \in {Absent, PyInt, PyStr("a.csv")}
                 /\ w["url"] # PyInt
                 /\ w["size"] \in {Absent, PyInt}}}

InitManifest ==
    /\ cmd = "ManifestFile.load"
    /\ \E data \in ManifestEntryInputs : args = [data |-> data]
    /\ fs = [root |-> DefaultRepositoryRoot, dirs |-> <<>>]
    /\ pc = "start"
    /\ todo = {}
    /\ return_value = NoValue
    /\ exception = "none"
    /\ log = <<>>
    /\ calls = <<>>
    /\ cli = NoCli

LoadManifestFile ==
    /\ cmd = "ManifestFile.load"
    /\ pc = "start"
    /\ LET loaded == ManifestFileLoad(args.data)
       IN  /\ return_value' = IF Returned(loaded) THEN loaded.value ELSE NoValue
           /\ exception' = IF Raised(loaded) THEN loaded.exc ELSE "none"
           /\ pc' = IF Returned(loaded) THEN "done" ELSE "raised"
    /\ calls' = Append(calls, [fn |-> "ManifestFile.load", arg |-> "entry"])
    /\ UNCHANGED <<cmd, args, fs, todo, log, cli>>

NextManifest == LoadManifestFile

SpecManifest == InitManifest /\ [][NextManifest]_vars

(***************************************************************************)
(* Properties of the directory checks.                                     *)
(***************************************************************************)
ScriptCheck == cmd = "check_script_directory"
ScriptCheckEnded == ScriptCheck /\ fs.kind = "dir" /\ pc \in {"done", "raised"}

\* the file passes: its metadata validates and, when the locations are
\* checked, every file it declares exists
FilePasses(file) ==
    LET metadata == validate_script_metadata(fs.files, file)
    IN  /\ Returned(metadata)
        /\ args.check_file_locations =>
            \A k \in {"input_files", "output_files"} :
                \A i \in 1..Len(metadata.value[k]) :
                    Join(WorkingDirectory, "data/" \o metadata.value[k][i]["name"].v)
                        \in fs.onDisk
AllPass == \A file \in ScriptFiles(fs) : FilePasses(file)

\* C1: on an existing directory check_script_directory returns True if and
\* only if every eligible script file passes metadata validation and (when
\* check_file_locations is on) every declared file exists; a single failing
\* file makes the result False, wherever it comes in the processing order.
C1_Original ==
    ScriptCheckEnded =>
        /\ (pc = "done" /\ return_value) <=> AllPass
        /\ ~AllPass => (pc = "done" /\ ~return_value)

\* the per-file outcome lines of the log that are about file
OutcomeLines(file) ==
    {i \in 1..Len(log) :
        /\ log[i].msg \in {"did not pass metadata validation", "contains valid metadata"}
        /\ log[i].names = {file}}

\* C2: when check_script_directory has ended, the log holds exactly one
\* outcome line for each of the N eligible script files, N in all: the failure
\* of an earlier file never suppresses the line of a later one.
C2_Original ==
    ScriptCheckEnded =>
        /\ \A file \in ScriptFiles(fs) : Cardinality(OutcomeLines(file)) = 1
        /\ Cardinality(UNION {OutcomeLines(file) : file \in DOMAIN fs.files})
                = Cardinality(ScriptFiles(fs))

\* C3: an error raised while extracting, decoding or validating one script
\* file never leaves check_script_directory: the call returns a boolean, and
\* every script file of the directory has been handed to the validation.
C3_Original ==
    ScriptCheck =>
        /\ exception = "none"
        /\ pc # "raised"
        /\ pc = "done" /\ fs.kind = "dir" =>
            \A file \in ScriptFiles(fs) :
                \E i \in 1..Len(calls) : calls[i].arg = file

\* the log lines of the existence checks, and the path the claim expects
\* each of them to be about
LocationLines(outcome) ==
    {i \in 1..Len(log) :
        log[i].msg \in {"Input file " \o outcome, "Output file " \o outcome}}
UnderRepositoryRoot(i) ==
    \A name \in log[i].names : Join(args.repository_root, "data/" \o name) \in fs.onDisk

\* C11 as claimed: the existence check of a declared input or output file is
\* made on repository_root / descriptor.path / descriptor.name, so a file is
\* reported as found exactly when that path exists, whatever the current
\* working directory is.
C11_Original ==
    ScriptCheck =>
        /\ \A i \in LocationLines("found") : UnderRepositoryRoot(i)
        /\ \A i \in LocationLines("not found") : ~UnderRepositoryRoot(i)

\* the script files handed to the validation so far, those of them that
\* validated, and the descriptors these declare
Called == {calls[i].arg : i \in 1..Len(calls)}
Validated == {file \in Called : Returned(validate_script_metadata(fs.files, file))}
Descriptors(file) ==
    LET metadata == validate_script_metadata(fs.files, file).value
    IN  {<<k, i>> : k \in {"input_files"}, i \in 1..Len(metadata["input_files"])}
        \cup {<<k, i>> : k \in {"output_files"}, i \in 1..Len(metadata["output_files"])}
Missing(file) ==
    LET metadata == validate_script_metadata(fs.files, file).value
    IN  {d \in Descriptors(file) :
            Join(WorkingDirectory, "data/" \o metadata[d[1]][d[2]]["name"].v)
                \notin fs.onDisk}
RECURSIVE Total(_, _)
Total(files, missingOnly) ==
    IF files = {} THEN 0
    ELSE LET file == CHOOSE f \in files : TRUE
         IN  Cardinality(IF missingOnly THEN Missing(file) ELSE Descriptors(file))
                + Total(files \ {file}, missingOnly)

Eligible ==
    {f \in DOMAIN fs.files :
        /\ DirName(f) = "."
        /\ ~Hidden(f)
        /\ SuffixLower(f) \in {".r", ".py", ".md", ".rmd"}
        /\ f \notin {"__init__.py", "README.md"}}

\* C20: check_script_directory validates exactly the immediate children of
\* the directory that are regular, non-hidden files with an extension in
\* {.r, .py, .md, .rmd} (in any case) and a name outside the ignore list:
\* each of them once, nothing else (no file of a subdirectory, no directory
\* with a script's name), and the result is that of these files alone.
C20_ExactlyTheScriptFiles ==
    (ScriptCheck /\ fs.kind = "dir") =>
        /\ Called \subseteq Eligible
        /\ Len(calls) = Cardinality(Called)
        /\ \A i \in 1..Len(log) :
                log[i].msg \in {"did not pass metadata validation", "contains valid metadata"}
                    => log[i].names \subseteq Eligible
        /\ pc = "done" =>
            /\ Called = Eligible
            /\ return_value <=> \A file \in Eligible : FilePasses(file)
C20_Witness ==
    /\ ScriptCheck
    /\ pc = "done"
    /\ DOMAIN fs.files = {"b.R", "sub/g.py"}
    /\ ~fs.files["sub/g.py"].parses
    /\ fs.subdirs = {"sub"}
    /\ Called = {"b.R"}
    /\ return_value = TRUE

\* C4: a manifest entry passes ManifestFile validation if and only if exactly
\* one of the keys url and script is supplied: with both it fails, with
\* neither it fails, with exactly one (and a name, the fields being
\* well-formed) it passes.
EntryWellFormed(data) ==
    /\ Keys(data) \subseteq {"name", "url", "script", "md5"}
    /\ "name" \in Keys(data)
    /\ \A k \in Keys(data) : data.m[k].t = "str"
    /\ "url" \in Keys(data) => data.m["url"].v = "https://example.org/a.csv"
C4_ExactlyOneProvenance ==
    (cmd = "ManifestFile.load" /\ pc # "start") =>
        LET url == "url" \in Keys(args.data)
            script == "script" \in Keys(args.data)
        IN  /\ (url /\ script) => exception = "ValidationError"
            /\ (~url /\ ~script) => exception = "ValidationError"
            /\ pc = "done" => (url # script)
            /\ (url # script /\ EntryWellFormed(args.data)) => pc = "done"
C4_Witness ==
    /\ cmd = "ManifestFile.load"
    /\ Keys(args.data) = {"name", "md5"}
    /\ EntryWellFormed(args.data)
    /\ exception = "ValidationError"

\* the directory a call of check_data_directory was made on, the names its
\* manifest declares (M) and the names of its data files (D)
DataCheckDone == cmd = "check_data_directory" /\ pc = "done"
Checked ==
    IF args.directory.root = "relative"
    THEN Join(args.repository_root, args.directory.rel) ELSE args.directory
TheNode == Lookup(Checked)
ManifestValid ==
    /\ TheNode.kind = "dir"
    /\ "MANIFEST.yaml" \in TheNode.files
    /\ TheNode.manifest # YamlSyntaxError
    /\ Returned(ManifestSchemaLoad(TheNode.manifest))
DeclaredNames ==
    {TheNode.manifest.m["files"].items[i].m["name"].v :
        i \in 1..Len(TheNode.manifest.m["files"].items)}
DataFileNames == {f \in TheNode.files : f \notin {"MANIFEST.yaml", ".DS_Store"}}
Reported(msg) == {log[i].names : i \in {j \in 1..Len(log) : log[j].msg = msg}}

\* C5: with a present, schema-valid manifest check_data_directory reports
\* exactly M \ D as only in the manifest and exactly D \ M as only in the
\* directory, both when both are non-empty, and returns False when M # D.
C5_TwoWayDifference ==
    (DataCheckDone /\ ManifestValid) =>
        /\ Reported("Only in manifest") =
                IF DeclaredNames \ DataFileNames = {} THEN {}
                ELSE {DeclaredNames \ DataFileNames}
        /\ Reported("Only in directory") =
                IF DataFileNames \ DeclaredNames = {} THEN {}
                ELSE {DataFileNames \ DeclaredNames}
        /\ DeclaredNames # DataFileNames => return_value = FALSE
C5_Witness ==
    /\ DataCheckDone
    /\ ManifestValid
    /\ DeclaredNames = {"a.csv"}
    /\ DataFileNames = {"b.csv"}
    /\ Reported("Only in manifest") = {{"a.csv"}}
    /\ Reported("Only in directory") = {{"b.csv"}}
    /\ return_value = FALSE

\* the checked directory is the one the manifest names / the manifest lists
\* the data files of the directory
NamesChecked == Join(args.repository_root, TheNode.manifest.m["directory"].v) = Checked
ListsFiles == DeclaredNames = DataFileNames
Logged(msg) == \E i \in 1..Len(log) : log[i].msg = msg

\* C18: with a schema-valid manifest check_data_directory always makes both
\* the directory-name check and the file-set check: a manifest whose
\* directory field does not denote the checked directory (repository_root /
\* manifest.directory differs from the checked path) is reported and makes
\* the result False, the file sets are compared and a difference reported
\* whether or not the name matched, and the result is True if and only if
\* both checks pass.
C18_BothChecksRun ==
    (DataCheckDone /\ ManifestValid) =>
        /\ Logged("MANIFEST.yaml directory name does not match") <=> ~NamesChecked
        /\ \E i \in 1..Len(calls) : calls[i].fn = "compare files"
        /\ Logged("MANIFEST.yaml files do not match directory contents") <=> ~ListsFiles
        /\ return_value <=> (NamesChecked /\ ListsFiles)
        /\ Logged("Directory validated") <=> return_value
C18_Witness ==
    /\ DataCheckDone
    /\ ManifestValid
    /\ args.repository_root = "repo"
    /\ TheNode.manifest.m["directory"].v = "data"
    /\ ~NamesChecked
    /\ DataFileNames \ DeclaredNames # {}
    /\ Logged("MANIFEST.yaml directory name does not match")
    /\ Logged("Only in directory")
    /\ return_value = FALSE

\* the calls made while checking the data directory rel
CallsAbout(rel) == {i \in 1..Len(calls) : calls[i].arg = rel}
ChecksOf(rel) == {i \in CallsAbout(rel) : calls[i].fn = "check_data_directory"}
Structural(node) == node.kind # "dir" \/ "MANIFEST.yaml" \notin node.files

\* C6: a structural error short-circuits the directory it occurs in, and only
\* that one: check_data_directory returns False without decoding a manifest
\* or comparing file sets when the directory is absent, is not a directory or
\* has no MANIFEST.yaml; check_script_directory returns False without
\* validating a file when the directory is absent or not a directory; and
\* check_all_data_directories checks every directory once, whichever of them
\* fail in this way.
C6_StructuralShortCircuit ==
    /\ (DataCheckDone /\ Structural(TheNode)) =>
            (return_value = FALSE /\ calls = <<>>)
    /\ (ScriptCheck /\ pc # "start" /\ fs.kind # "dir") =>
            (pc = "done" /\ return_value = FALSE /\ calls = <<>>)
    /\ cmd = "check_all_data_directories" =>
        /\ \A rel \in DOMAIN fs.dirs :
            /\ Structural(fs.dirs[rel]) => CallsAbout(rel) = ChecksOf(rel)
            /\ Cardinality(ChecksOf(rel)) <= 1
            /\ pc = "done" => Cardinality(ChecksOf(rel)) = 1
        /\ exception = "none"
C6_Witness ==
    /\ cmd = "check_all_data_directories"
    /\ pc = "done"
    /\ Cardinality(DOMAIN fs.dirs) = 3
    /\ Structural(fs.dirs["data"])
    /\ \A rel \in DOMAIN fs.dirs : Cardinality(ChecksOf(rel)) = 1
    /\ \E i \in 1..Len(calls) : calls[i].fn = "compare files"

\* the calls of check_data_directory, in order, and the directories that
\* are still to be checked
CheckAll == cmd = "check_all_data_directories"
DirectoryChecks == SelectSeq(calls, LAMBDA c : c.fn = "check_data_directory")
Waiting == {todo[i].rel : i \in 1..Len(todo)}

\* C19: check_all_data_directories applies check_data_directory exactly once
\* to the data root and exactly once to every directory below it, at any
\* depth, the root first; it returns no combined result, and the directories
\* that are checked do not depend on the outcome of any of the checks.
C19_EveryDirectoryOnce ==
    (CheckAll /\ pc # "start") =>
        /\ \A rel \in DOMAIN fs.dirs :
            /\ Cardinality(ChecksOf(rel)) + Cardinality({i \in 1..Len(todo) : todo[i].rel = rel})
                    = 1
        /\ \A i \in 1..Len(DirectoryChecks) : DirectoryChecks[i].arg \in DOMAIN fs.dirs
        /\ DirectoryChecks # <<>> => DirectoryChecks[1].arg = args.data_root.rel
        /\ DirectoryChecks = <<>> => (todo # <<>> /\ todo[1].rel = args.data_root.rel)
        /\ pc = "done" =>
            /\ todo = <<>>
            /\ Len(DirectoryChecks) = Cardinality(DOMAIN fs.dirs)
            /\ return_value = NoValue
        /\ exception = "none"
C19_Witness ==
    /\ CheckAll
    /\ pc = "done"
    /\ DOMAIN fs.dirs = {"data", "data/d1", "data/d1/d3"}
    /\ Len(DirectoryChecks) = 3
    /\ DirectoryChecks[1].arg = "data"
    /\ Logged("MANIFEST.yaml not found")
    /\ Logged("Directory validated")
    /\ return_value = NoValue

(***************************************************************************)
(* Properties of validate_script_metadata.                                 *)
(***************************************************************************)
\* validate_script_metadata has run on a file that exists
ValidateRan ==
    /\ cmd = "validate_script_metadata"
    /\ pc # "start"
    /\ args.file_path \in DOMAIN fs.files
TheFile == fs.files[args.file_path]
\* the decoded front-matter of the file
Decoded == Loader(args.file_path, TheFile)
DecodedMap == ValidateRan /\ Returned(Decoded) /\ Decoded.value.t = "map"

\* the required fields as the specification lists them
ClaimedRequired ==
    {"title", "description", "author", "virtual_ecosystem_module", "status",
     "package_dependencies", "usage_notes"}
ClaimedFileLists == {"input_files", "output_files"}
ClaimedFields == ClaimedRequired \cup ClaimedFileLists
\* all required fields are present with values of the declared types
WellTypedRequired(d) ==
    /\ ClaimedRequired \subseteq Keys(d)
    /\ \A k \in {"title", "description", "status", "usage_notes"} : d.m[k].t = "str"
    /\ \A k \in {"author", "virtual_ecosystem_module", "package_dependencies"} :
            d.m[k].t = "strlist"
\* the entries of the file lists of d
ListEntries(d) ==
    UNION {{d.m[k].items[i] : i \in 1..Len(d.m[k].items)} :
            k \in {f \in ClaimedFileLists \cap Keys(d) : d.m[f].t = "list"}}
\* every file list is null or a list, every entry has name, path, description
FileListsComplete(d) ==
    /\ \A k \in ClaimedFileLists \cap Keys(d) : d.m[k].t \in {"null", "list"}
    /\ \A e \in ListEntries(d) :
        e.t = "map" /\ EntryKeys \subseteq Keys(e) /\ \A k \in EntryKeys : e.m[k].t = "str"
\* no key outside the schemas
NoUnknownKeys(d) ==
    /\ Keys(d) \subseteq ClaimedFields
    /\ \A e \in ListEntries(d) : Keys(e) \subseteq EntryKeys
\* the ScriptMetadata that corresponds to the mapping d
ExpectedMetadata(d) ==
    [k \in ClaimedFields |->
        IF k \in ClaimedFileLists
        THEN IF k \in Keys(d) /\ d.m[k].t = "list"
             THEN [i \in 1..Len(d.m[k].items) |->
                      [j \in EntryKeys |-> d.m[k].items[i].m[j]]]
             ELSE <<>>
        ELSE d.m[k]]

\* C7: a returned ScriptMetadata has input_files and output_files that are
\* sequences: the empty sequence when the key is absent from the front-matter
\* and when it is present with a null value (and such front-matter, when its
\* other fields are valid, does yield a ScriptMetadata).
C7_FileListsNeverNull ==
    DecodedMap =>
        LET d == Decoded.value
            empty == {k \in ClaimedFileLists : k \notin Keys(d) \/ d.m[k] = PyNone}
        IN  /\ pc = "done" =>
                \A k \in ClaimedFileLists :
                    /\ DOMAIN return_value[k] = 1..Len(return_value[k])
                    /\ k \in empty => return_value[k] = <<>>
                    /\ k \notin empty => Len(return_value[k]) = Len(d.m[k].items)
            /\ (empty # {} /\ WellTypedRequired(d) /\ FileListsComplete(d)
                    /\ NoUnknownKeys(d)) => pc = "done"
C7_Witness ==
    /\ DecodedMap
    /\ pc = "done"
    /\ "input_files" \in Keys(Decoded.value)
    /\ Decoded.value.m["input_files"] = PyNone
    /\ "output_files" \notin Keys(Decoded.value)
    /\ return_value["input_files"] = <<>>
    /\ return_value["output_files"] = <<>>

\* a file without its metadata block
LacksBlock(name, file) ==
    CASE SuffixLower(name) = ".py" -> file.parses /\ ~file.hasDoc
      [] SuffixLower(name) = ".r" -> Len(DocumentMarkers(file.lines, RMarker)) < 2
      [] SuffixLower(name) \in {".md", ".rmd"} ->
            Len(DocumentMarkers(file.lines, MdMarker)) < 2
      [] OTHER -> FALSE

\* C8: a script file that lacks its metadata block (.py without a module
\* docstring, .R without two marker lines, .md/.Rmd without two delimiter
\* lines) makes validate_script_metadata fail with the ValueError of its
\* extractor; it never yields a ScriptMetadata.
C8_MissingBlockFails ==
    (ValidateRan /\ LacksBlock(args.file_path, TheFile)) =>
        /\ pc = "raised"
        /\ exception = "ValueError"
C8_Witness ==
    /\ ValidateRan
    /\ SuffixLower(args.file_path) = ".r"
    /\ Len(DocumentMarkers(TheFile.lines, RMarker)) = 1
    /\ TheFile.doc = GoodMap
    /\ exception = "ValueError"

\* C9 as claimed: a mapping with all required fields and a key outside the
\* schema is accepted and yields the ScriptMetadata of the mapping without
\* that key.
C9_Original ==
    (DecodedMap /\ ~(Keys(Decoded.value) \subseteq ClaimedFields)
        /\ WellTypedRequired(Decoded.value) /\ FileListsComplete(Decoded.value)
        /\ \A e \in ListEntries(Decoded.value) : Keys(e) \subseteq EntryKeys) =>
        /\ pc = "done"
        /\ return_value = ExpectedMetadata(Decoded.value)

\* C9 (amended): schema validation rejects unknown fields: front-matter with
\* a key that is not part of the ScriptMetadata schema makes
\* validate_script_metadata fail with ValueError, also when all required
\* fields are present.
C9_UnknownFieldsRejected ==
    (DecodedMap /\ ~(Keys(Decoded.value) \subseteq ClaimedFields)) =>
        /\ pc = "raised"
        /\ exception = "ValueError"
C9_Witness ==
    /\ DecodedMap
    /\ "licence" \in Keys(Decoded.value)
    /\ WellTypedRequired(Decoded.value)
    /\ FileListsComplete(Decoded.value)
    /\ pc = "raised"

\* some required field is missing / some file entry lacks one of its keys
LacksRequired(d) == ~(ClaimedRequired \subseteq Keys(d))
EntryLacksKey(d) == \E e \in ListEntries(d) : ~(EntryKeys \subseteq Keys(e))

\* C10 as claimed: fails when a required field or a key of a file entry is
\* missing, succeeds when all of them are present with the declared types.
C10_Original ==
    DecodedMap =>
        /\ LacksRequired(Decoded.value) => pc = "raised"
        /\ EntryLacksKey(Decoded.value) => pc = "raised"
        /\ (WellTypedRequired(Decoded.value) /\ FileListsComplete(Decoded.value))
                => pc = "done"

\* C10 (amended): validate_script_metadata fails whenever the front-matter
\* lacks a required field or a file entry lacks name, path or description;
\* it succeeds when all of these are present with the declared types and
\* neither the mapping nor a file entry has a key outside the schema.
C10_RequiredFields ==
    DecodedMap =>
        /\ LacksRequired(Decoded.value) => exception = "ValueError"
        /\ EntryLacksKey(Decoded.value) => exception = "ValueError"
        /\ (WellTypedRequired(Decoded.value) /\ FileListsComplete(Decoded.value)
                /\ NoUnknownKeys(Decoded.value))
                => (pc = "done" /\ return_value = ExpectedMetadata(Decoded.value))
C10_Witness ==
    /\ DecodedMap
    /\ "usage_notes" \notin Keys(Decoded.value)
    /\ \A k \in ClaimedRequired \ {"usage_notes"} : k \in Keys(Decoded.value)
    /\ exception = "ValueError"

\* the status of the decoded front-matter, when it has one that is a string
StatusGiven ==
    /\ DecodedMap
    /\ "status" \in Keys(Decoded.value)
    /\ Decoded.value.m["status"].t = "str"
ListedStatus == {"final", "wip", "draft"}

Documented == {"ValueError", "YAMLError", "ValidationError"}

\* C15 as claimed: on an existing file validate_script_metadata returns a
\* ScriptMetadata or raises ValueError, YAMLError or ValidationError, also
\* for an extension that is none of .py, .r, .md, .rmd and for front-matter
\* that decodes to a null or non-mapping value.
C15_Original ==
    ValidateRan =>
        \/ pc = "done" /\ exception = "none"
        \/ pc = "raised" /\ exception \in Documented

\* the positions of the lines of the file that are the line given
LinesThatAre(line) == {i \in 1..Len(TheFile.lines) : TheFile.lines[i] = line}
RFileRead == ValidateRan /\ SuffixLower(args.file_path) = ".r"

\* C16: the extractor of R scripts fails with ValueError when the file has
\* fewer than two marker lines "#| ---" and when its first marker line is not
\* the first line of the file; nothing is decoded in either case (a block
\* that is not valid YAML still gives ValueError, not YAMLError).
C16_RMarkersRequired ==
    RFileRead =>
        /\ Cardinality(LinesThatAre("#| ---")) < 2 =>
                (pc = "raised" /\ exception = "ValueError")
        /\ 1 \notin LinesThatAre("#| ---") =>
                (pc = "raised" /\ exception = "ValueError")
C16_Witness ==
    /\ RFileRead
    /\ LinesThatAre("#| ---") = {2, 3}
    /\ TheFile.doc = YamlSyntaxError
    /\ pc = "raised"
    /\ exception = "ValueError"

MdFileRead == ValidateRan /\ SuffixLower(args.file_path) \in {".md", ".rmd"}
\* exactly two lines start with "---" and the first of them is line one
Delimited == Cardinality(LinesThatAre("---")) = 2 /\ 1 \in LinesThatAre("---")
\* there is YAML text between the two delimiter lines
BlockHasText ==
    \E i \in LinesThatAre("key: value") : \E k \in LinesThatAre("---") : i < k
\* the block decodes to a mapping that has the key ve_data_science
HasNamespace ==
    /\ TheFile.doc # YamlSyntaxError
    /\ TheFile.doc.t = "map"
    /\ "ve_data_science" \in Keys(TheFile.doc)

\* C17: the extractor of markdown notebooks succeeds only on a file with
\* exactly two lines starting with "---", the first of them being the first
\* line of the file: with 0, 1, 3 or more such lines, or a first one further
\* down, it fails with ValueError; with well-formed delimiters and a block
\* without the key ve_data_science it fails (ValueError when the block is a
\* mapping) and never returns the whole block: the metadata returned is that
\* under the key.
C17_MarkdownDelimiters ==
    MdFileRead =>
        /\ pc = "done" => (Delimited /\ HasNamespace)
        /\ ~Delimited => (pc = "raised" /\ exception = "ValueError")
        /\ (Delimited /\ ~HasNamespace) => pc = "raised"
        /\ (Delimited /\ TheFile.doc # YamlSyntaxError /\ TheFile.doc.t = "map"
                /\ ~HasNamespace /\ BlockHasText)
                => exception = "ValueError"
        /\ pc = "done" =>
                /\ TheFile.doc.m["ve_data_science"].t = "map"
                /\ return_value = ExpectedMetadata(TheFile.doc.m["ve_data_science"])
C17_Witness ==
    /\ MdFileRead
    /\ Delimited
    /\ LinesThatAre("key: value") = {2}
    /\ TheFile.doc = GoodMap
    /\ pc = "raised"
    /\ exception = "ValueError"

(***************************************************************************)
(* Properties of maintenance_tool_cli.                                     *)
(***************************************************************************)
CliReturned == cli.pc = "done"
\* the check a subcommand ran returned True / returned False
CheckSucceeded == cmd \in {"check_script_directory", "check_data_directory"} /\ return_value
CheckFailed == cmd \in {"check_script_directory", "check_data_directory"} /\ ~return_value

C14_Original ==
    CliReturned =>
        /\ CheckSucceeded => cli.status = 0
        /\ CheckFailed => cli.status = 1

\* ---------------------------------------------------------------------
\* Properties of the log and of the file system

ErrorLogged == \E i \in 1..Len(log) : log[i].level = "ERROR"
FoundLogged(level) ==
    \E i \in 1..Len(log) :
        /\ log[i].level = level
        /\ log[i].msg \in {"Input file found", "Output file found"}

\* C22 as claimed: in check_script_directory and check_data_directory a
\* record of level ERROR is logged only for a failure: a call that logged one
\* returns False, a call that returns True logged none, and a declared file
\* that was found is not reported at level ERROR.
C22_Original ==
    (cmd \in {"check_script_directory", "check_data_directory"} /\ pc = "done") =>
        /\ ErrorLogged => return_value = FALSE
        /\ ~FoundLogged("ERROR")

\* the records of a log, counted
LogLines(records) ==
    LET lines == {records[i] : i \in 1..Len(records)}
    IN  [line \in lines |-> Cardinality({i \in 1..Len(records) : records[i] = line})]

\* the orders in which the loop can take the script files
FileOrders(files) ==
    {order \in [1..Cardinality(files) -> files] :
        \A file \in files : \E i \in DOMAIN order : order[i] = file}

\* the loop of check_script_directory over the files in a given order
RECURSIVE LoopInOrder(_, _)
LoopInOrder(order, before) ==
    IF order = <<>> \/ before.pc = "raised" THEN before
    ELSE LET metadata == validate_script_metadata(fs.files, Head(order))
             after ==
                IF Raised(metadata) /\ metadata.exc \in Caught
                THEN [pc |-> "done", value |-> FALSE,
                      log |-> Append(before.log,
                            LogRecord("ERROR", "did not pass metadata validation",
                                      {Head(order)}))]
                ELSE IF Raised(metadata)
                THEN [before EXCEPT !.pc = "raised"]
                ELSE LET inputs == metadata.value["input_files"]
                         outputs == metadata.value["output_files"]
                         valid == LogRecord("INFO", "contains valid metadata", {Head(order)})
                     IN  IF args.check_file_locations
                         THEN [pc |-> "done",
                               value |-> LocationResult(before.value, inputs, outputs,
                                                        fs.onDisk),
                               log |-> before.log \o <<valid>>
                                        \o LocationLog(inputs, "Input", fs.onDisk)
                                        \o LocationLog(outputs, "Output", fs.onDisk)]
                         ELSE [before EXCEPT !.log = Append(before.log, valid)]
         IN  LoopInOrder(Tail(order), after)
ResultInOrder(order) ==
    LoopInOrder(order, [pc |-> "done", value |-> TRUE, log |-> SubSeq(log, 1, 2)])

\* C23 as claimed: the result of check_script_directory, the boolean and the
\* log lines as a multiset, is the one every processing order of the script
\* files gives.
C23_Original ==
    ScriptCheckEnded =>
        \A order \in FileOrders(ScriptFiles(fs)) :
            LET result == ResultInOrder(order)
            IN  /\ result.pc = pc
                /\ result.value = return_value
                /\ LogLines(result.log) = LogLines(log)

\* C24: the three check functions leave the file system as it was: a step
\* of check_script_directory, check_data_directory or
\* check_all_data_directories changes neither the directories nor the files,
\* and what it does to the log is to append records to it.
C24_FileSystemUnchanged ==
    [][/\ fs' = fs
       /\ Len(log') >= Len(log)
       /\ SubSeq(log', 1, Len(log)) = log]_vars
C24_Witness ==
    /\ DataCheckDone
    /\ TheNode.kind = "dir"
    /\ "MANIFEST.yaml" \in TheNode.files
    /\ Logged("Directory validated")

\* ---------------------------------------------------------------------
\* Properties of the extractors

\* the file is a well-formed file of its convention, and the mapping that is
\* written in it
Written ==
    IF SuffixLower(args.file_path) \in {".md", ".rmd"}
    THEN IF TheFile.doc.t = "map" /\ "ve_data_science" \in Keys(TheFile.doc)
         THEN TheFile.doc.m["ve_data_science"] ELSE PyNone
    ELSE TheFile.doc
WellFormedFile ==
    /\ ValidateRan
    /\ Written.t = "map"
    /\ \/ SuffixLower(args.file_path) = ".py" /\ TheFile = GoodPy(Written)
       \/ SuffixLower(args.file_path) = ".r" /\ TheFile = GoodR(Written)
       \/ SuffixLower(args.file_path) \in {".md", ".rmd"} /\ TheFile = GoodMd(Written)
\* the same mapping written in each convention
Conventions(d) ==
    {<<"a.py", GoodPy(d)>>, <<"b.R", GoodR(d)>>, <<"c.Rmd", GoodMd(d)>>,
     <<"e.md", GoodMd(d)>>}

\* C25 as claimed: a mapping written as a Python docstring, as an R comment
\* block and as markdown front-matter under ve_data_science extracts to the
\* same keys and validates to the same ScriptMetadata, or fails in all of them.
C25_Original ==
    WellFormedFile =>
        \A other \in Conventions(Written) :
            LET extracted == Loader(other[1], other[2])
                metadata == validate_script_metadata([n \in {other[1]} |-> other[2]],
                                                     other[1])
            IN  /\ Returned(extracted) /\ extracted.value.t = "map"
                /\ Keys(extracted.value) = Keys(Written)
                /\ Returned(metadata) <=> pc = "done"
                /\ Returned(metadata) => metadata.value = return_value

\* the R file the call was made on, and the number of its marker lines
RMarkerCount == Cardinality(LinesThatAre(RMarker))

\* C26 as claimed: the R extractor accepts a file only if it has exactly two
\* marker lines; a file with three or more is rejected.
C26_Original ==
    (RFileRead /\ pc = "done") => RMarkerCount = 2

\* C26 (amended): the R extractor accepts a file only if it has at least two
\* marker lines: a file with fewer is rejected with ValueError, and a file
\* with three or more is read like the file that ends before its third
\* marker, the block being the lines between the first two.
C26_AtLeastTwoMarkers ==
    RFileRead =>
        /\ RMarkerCount < 2 => (pc = "raised" /\ exception = "ValueError")
        /\ pc = "done" => RMarkerCount >= 2
        /\ RMarkerCount >= 3 =>
            LET third == CHOOSE i \in LinesThatAre(RMarker) :
                            Cardinality({j \in LinesThatAre(RMarker) : j < i}) = 2
                shorter == [TheFile EXCEPT !.lines = SubSeq(@, 1, third - 1)]
                metadata == validate_script_metadata(
                                [n \in {args.file_path} |-> shorter], args.file_path)
            IN  /\ Returned(metadata) <=> pc = "done"
                /\ Returned(metadata) => metadata.value = return_value
                /\ Raised(metadata) => metadata.exc = exception
C26_Witness ==
    /\ RFileRead
    /\ RMarkerCount = 3
    /\ pc = "done"

\* the texts handed to yaml.safe_load
HandedTexts ==
    {calls[i].text : i \in {j \in 1..Len(calls) : calls[j].fn = "yaml.safe_load"}}
\* a line that starts with the comment prefix, and the line without it
YamlTexts == {"---", "key: value", ""}
Prefixed(line) == \E u \in YamlTexts : line \in {"#| " \o u, "#|" \o u}
Unprefixed(line) == CHOOSE u \in YamlTexts : line \in {"#| " \o u, "#|" \o u}
\* the second marker line of the R file
SecondRMarker ==
    CHOOSE i \in LinesThatAre(RMarker) :
        Cardinality({j \in LinesThatAre(RMarker) : j < i}) = 1

\* C27: when the R extractor decodes, the text it hands to the YAML decoder
\* is the lines from the first marker (included) to the second marker
\* (excluded), each without its comment prefix and otherwise as in the file;
\* when a line of that range does not start with the prefix, the extractor
\* fails with ValueError and nothing is decoded.
C27_RBlockVerbatim ==
    RFileRead =>
        /\ \A text \in HandedTexts :
            /\ RMarkerCount >= 2
            /\ 1 \in LinesThatAre(RMarker)
            /\ text = [i \in 1..(SecondRMarker - 1) |-> Unprefixed(TheFile.lines[i])]
        /\ (RMarkerCount >= 2 /\ 1 \in LinesThatAre(RMarker)) =>
            IF \A i \in 1..(SecondRMarker - 1) : Prefixed(TheFile.lines[i])
            THEN Cardinality(HandedTexts) = 1
            ELSE HandedTexts = {} /\ pc = "raised" /\ exception = "ValueError"
C27_Witness ==
    /\ RFileRead
    /\ HandedTexts = {<<"---", "key: value", "">>}
    /\ pc = "done"

\* the characters of a docstring
RECURSIVE Characters(_)
Characters(text) ==
    IF text = <<>> THEN <<>>
    ELSE (IF Head(text) = "y-" THEN <<"y", "-">> ELSE <<Head(text)>>)
         \o Characters(Tail(text))
\* the length of the longest run of newlines and dashes that ends chars
RECURSIVE TrailingRun(_)
TrailingRun(chars) ==
    IF chars # <<>> /\ chars[Len(chars)] \in {"\n", "-"}
    THEN 1 + TrailingRun(SubSeq(chars, 1, Len(chars) - 1))
    ELSE 0
PyFileRead == ValidateRan /\ SuffixLower(args.file_path) = ".py"

RECURSIVE LogsWithRoot(_, _)
LogsWithRoot(checks, repository_root) ==
    IF checks = <<>> THEN <<>>
    ELSE check_data_directory(Join(repository_root, Head(checks).arg), repository_root).log
         \o LogsWithRoot(Tail(checks), repository_root)

\* C29 as claimed: check_all_data_directories with the repository root R
\* gives for every directory it checks the outcome that
\* check_data_directory(directory, repository_root=R) gives.
C29_Original ==
    (CheckAll /\ pc # "start") =>
        SubSeq(log, 2, Len(log)) = LogsWithRoot(DirectoryChecks, args.repository_root)

\* the sets the file-set check of the call compared
Compared == {calls[i] : i \in {j \in 1..Len(calls) : calls[j].fn = "compare files"}}
\* the regular files of the directory that are neither hidden nor the manifest
ListedFiles ==
    {f \in TheNode.files : f # "MANIFEST.yaml" /\ SubSeq(f, 1, 1) # "."}
FileSetErrors ==
    {"MANIFEST.yaml files do not match directory contents", "Only in manifest",
     "Only in directory"}

\* C30: the set of actual files check_data_directory compares with the
\* manifest has neither MANIFEST.yaml nor a hidden file nor a subdirectory:
\* it is the set of the non-hidden regular files other than MANIFEST.yaml. The
\* file-set check passes exactly when the set of the declared names equals
\* it; a name declared twice counts once, and an entry that names
\* MANIFEST.yaml, a hidden file or a subdirectory is reported as only in the
\* manifest.
C30_ComparedFiles ==
    (DataCheckDone /\ ManifestValid) =>
        /\ Cardinality(Compared) = 1
        /\ \A compare \in Compared :
            /\ compare.actual_files = ListedFiles
            /\ compare.actual_files \cap ({"MANIFEST.yaml", ".DS_Store"} \cup TheNode.subdirs)
                    = {}
            /\ compare.manifest_files = DeclaredNames
        /\ (DeclaredNames = ListedFiles) <=> (\A msg \in FileSetErrors : ~Logged(msg))
        /\ \A name \in DeclaredNames \cap
                    ({"MANIFEST.yaml", ".DS_Store"} \cup TheNode.subdirs) :
                \E names \in Reported("Only in manifest") : name \in names
C30_Witness ==
    /\ DataCheckDone
    /\ ManifestValid
    /\ TheNode.subdirs = {"raw"}
    /\ {"a.csv", ".DS_Store"} \subseteq TheNode.files
    /\ DeclaredNames = {"raw", "a.csv"}
    /\ Reported("Only in manifest") = {{"raw"}}
    /\ Reported("Only in directory") = {}

====
